---- MODULE Spec2Model ----
(***************************************************************************)
(* SlabLinkedList (src/src/lib.rs): a doubly linked list whose links are   *)
(* keys into a slab::Slab.  The slab is modelled as the crate keeps it: a  *)
(* vector of Occupied/Vacant entries, the head of the vacant chain (next)  *)
(* and the number of occupied entries (len).                               *)
(*                                                                         *)
(* Option<usize> is modelled as an integer: None is -1, Some(k) is k.      *)
(* A panic unwinds out of the operation; the list keeps every write made   *)
(* before the panic and can be used again by the caller that caught it.    *)
(***************************************************************************)
EXTENDS Integers, Sequences, FiniteSets, TLC

\* Largest number of entries the slab's vector grows to.
MaxKeys == 3
\* Largest number of panics the caller catches and carries on after.
MaxPanics == 1
\* Largest number of operations applied to one list.
MaxOps == 6

None == -1
\* Payloads: the list never inspects a value, two distinct ones tell them apart.
Values == {1, 2}
\* Keys a caller may present: every slot index, and one beyond the vector.
Keys == 0..MaxKeys

VARIABLES slab, head, tail, ret, panics, ops

\* The caller of the push/pop scenario: which end it pushes at, the values it
\* has pushed and what its pops have returned.
VARIABLES mode, pushed, popped

scenario == <<mode, pushed, popped>>

vars == <<slab, head, tail, ret, panics, ops, mode, pushed, popped>>

----------------------------------------------------------------------------
(* Entries of the slab *)

\* Item::from(value): key, prev and next start as None.
ItemFrom(value) ==
  [tag |-> "Occupied", value |-> value, key |-> None, prev |-> None,
   next |-> None, vnext |-> None]

\* slab's Entry::Vacant(next)
Vacant(n) ==
  [tag |-> "Vacant", value |-> 0, key |-> None, prev |-> None,
   next |-> None, vnext |-> n]

\* Slab::default()
SlabNew == [entries |-> <<>>, len |-> 0, next |-> 0]

\* Slab::get(key).is_some()
SlabContains(s, k) ==
  /\ k >= 0
  /\ k < Len(s.entries)
  /\ s.entries[k + 1].tag = "Occupied"

\* A store that never hands a freed key out again.
SlabInsertNeverReusing(s, item) ==
  [key |-> Len(s.entries),
   slab |-> [entries |-> Append(s.entries, item),
             len |-> s.len + 1, next |-> Len(s.entries) + 1]]

\* Slab::insert: the key is the head of the vacant chain.
SlabInsert(s, item) ==
  LET key == s.next IN
  IF key = Len(s.entries)
  THEN [key |-> key,
        slab |-> [entries |-> Append(s.entries, item),
                  len |-> s.len + 1, next |-> key + 1]]
  ELSE [key |-> key,
        slab |-> [entries |-> [s.entries EXCEPT ![key + 1] = item],
                  len |-> s.len + 1, next |-> s.entries[key + 1].vnext]]

\* Slab::try_remove on a key that SlabContains: the slot joins the vacant chain.
SlabTryRemove(s, k) ==
  [entries |-> [s.entries EXCEPT ![k + 1] = Vacant(s.next)],
   len |-> s.len - 1, next |-> k]

\* Slab::get2_mut: asserts the keys differ, splits the vector at the larger
\* key (split_at_mut panics beyond the length) and yields both entries only
\* when both are occupied.
Get2Mut(s, key1, key2) ==
  IF key1 = key2 THEN "assert"
  ELSE IF key1 > key2
  THEN IF key1 > Len(s.entries) THEN "index"
       ELSE IF /\ key1 < Len(s.entries)
               /\ s.entries[key1 + 1].tag = "Occupied"
               /\ s.entries[key2 + 1].tag = "Occupied"
            THEN "Some" ELSE "None"
  ELSE IF key2 > Len(s.entries) THEN "index"
       ELSE IF /\ key2 < Len(s.entries)
               /\ s.entries[key1 + 1].tag = "Occupied"
               /\ s.entries[key2 + 1].tag = "Occupied"
            THEN "Some" ELSE "None"

\* Message of the panic raised when get2_mut(..).expect("invalid key") fails.
Get2MutPanic(g) == IF g = "None" THEN "invalid key" ELSE g

----------------------------------------------------------------------------
(* Operations of the list, as functions of the list before the call.        *)
(* Each yields the list after the call and what the caller sees:            *)
(*   kind = "key"   out is the returned key                                 *)
(*   kind = "value" out is the returned payload                             *)
(*   kind = "none"  the operation returned None                             *)
(*   kind = "panic" the operation panicked with message msg                 *)

Self == [slab |-> slab, head |-> head, tail |-> tail]

Res(self, kind, out, msg) ==
  [self |-> self, kind |-> kind, out |-> out, msg |-> msg]

\* SlabLinkedList::default / new
ListNew == [slab |-> SlabNew, head |-> None, tail |-> None]

\* insert_before, lines 69-83: the links written once both records are resolved.
\* The new record's prev is never written.
InsertBeforeLink(self, s1, key, target_key) ==
  LET s2  == [s1 EXCEPT !.entries[key + 1].key = key,
                        !.entries[key + 1].next = target_key]
      old == s2.entries[target_key + 1].prev
      s3  == [s2 EXCEPT !.entries[target_key + 1].prev = key]
  IN
  IF old = None
  THEN \* target is head
    LET after == [slab |-> s3, head |-> key, tail |-> self.tail] IN
    IF self.head = target_key
    THEN Res(after, "key", key, "")
    ELSE Res(after, "panic", None, "assert")
  ELSE
    IF ~SlabContains(s3, old)
    THEN Res([self EXCEPT !.slab = s3], "panic", None, "unwrap")
    ELSE
      LET s4 == [s3 EXCEPT !.entries[old + 1].next = key]
          after == [self EXCEPT !.slab = s4]
      IN
      IF s3.entries[old + 1].next = target_key
      THEN Res(after, "key", key, "")
      ELSE Res(after, "panic", None, "assert")

\* insert_before that hands out the new key although the target is not resolved.
InsertBeforeIgnoringTarget(self, value, target_key) ==
  LET ins == SlabInsert(self.slab, ItemFrom(value))
      g   == Get2Mut(ins.slab, ins.key, target_key)
  IN
  IF g # "Some"
  THEN Res([self EXCEPT !.slab = ins.slab], "key", ins.key, "")
  ELSE InsertBeforeLink(self, ins.slab, ins.key, target_key)

\* The record is inserted into the slab before the target is resolved.
InsertBefore(self, value, target_key) ==
  LET ins == SlabInsert(self.slab, ItemFrom(value))
      g   == Get2Mut(ins.slab, ins.key, target_key)
  IN
  IF g # "Some"
  THEN Res([self EXCEPT !.slab = ins.slab], "panic", None, Get2MutPanic(g))
  ELSE InsertBeforeLink(self, ins.slab, ins.key, target_key)

\* insert_after, lines 91-105: the links written once both records are resolved.
\* The new record's next is never written.
InsertAfterLink(self, s1, key, target_key) ==
  LET s2  == [s1 EXCEPT !.entries[key + 1].key = key,
                        !.entries[key + 1].prev = target_key]
      old == s2.entries[target_key + 1].next
      s3  == [s2 EXCEPT !.entries[target_key + 1].next = key]
  IN
  IF old = None
  THEN \* target is tail
    LET after == [slab |-> s3, head |-> self.head, tail |-> key] IN
    IF self.tail = target_key
    THEN Res(after, "key", key, "")
    ELSE Res(after, "panic", None, "assert")
  ELSE
    IF ~SlabContains(s3, old)
    THEN Res([self EXCEPT !.slab = s3], "panic", None, "unwrap")
    ELSE
      LET s4 == [s3 EXCEPT !.entries[old + 1].prev = key]
          after == [self EXCEPT !.slab = s4]
      IN
      IF s3.entries[old + 1].prev = target_key
      THEN Res(after, "key", key, "")
      ELSE Res(after, "panic", None, "assert")

\* The record is inserted into the slab before the target is resolved.
InsertAfter(self, value, target_key) ==
  LET ins == SlabInsert(self.slab, ItemFrom(value))
      g   == Get2Mut(ins.slab, ins.key, target_key)
  IN
  IF g # "Some"
  THEN Res([self EXCEPT !.slab = ins.slab], "panic", None, Get2MutPanic(g))
  ELSE InsertAfterLink(self, ins.slab, ins.key, target_key)

\* insert_first_item that forgets to set tail.
InsertFirstItemHeadOnly(self, value) ==
  IF self.slab.len # 0
  THEN Res(self, "panic", None, "assert")
  ELSE
    LET ins == SlabInsert(self.slab, ItemFrom(value))
        a1  == [slab |-> ins.slab, head |-> ins.key, tail |-> self.tail]
        a3  == [a1 EXCEPT !.slab.entries[ins.key + 1].key = ins.key]
    IN
    IF self.head # None THEN Res(a1, "panic", None, "assert")
    ELSE Res(a3, "key", ins.key, "")

InsertFirstItem(self, value) ==
  IF self.slab.len # 0
  THEN Res(self, "panic", None, "assert")
  ELSE
    LET ins == SlabInsert(self.slab, ItemFrom(value))
        key == ins.key
        a1  == [slab |-> ins.slab, head |-> key, tail |-> self.tail]
        a2  == [a1 EXCEPT !.tail = key]
        a3  == [a2 EXCEPT !.slab.entries[key + 1].key = key]
    IN
    IF self.head # None THEN Res(a1, "panic", None, "assert")
    ELSE IF self.tail # None THEN Res(a2, "panic", None, "assert")
    ELSE Res(a3, "key", key, "")

\* push_front that links the new record at the tail.
PushFrontAtBack(self, value) ==
  IF self.tail = None
  THEN InsertFirstItem(self, value)
  ELSE InsertAfter(self, value, self.tail)

PushFrontOp(self, value) ==
  IF self.head = None
  THEN InsertFirstItem(self, value)
  ELSE InsertBefore(self, value, self.head)

PushBackOp(self, value) ==
  IF self.tail = None
  THEN InsertFirstItem(self, value)
  ELSE InsertAfter(self, value, self.tail)

TryRemoveOp(self, key) ==
  IF ~SlabContains(self.slab, key)
  THEN Res(self, "none", None, "")
  ELSE
    LET item  == self.slab.entries[key + 1]
        s1    == SlabTryRemove(self.slab, key)
        a1    == [self EXCEPT !.slab = s1]
        prev  == item.prev
        next  == item.next
        value == item.value
    IN
    IF item.key # key THEN Res(a1, "panic", None, "assert")
    ELSE IF prev # None /\ next # None
    THEN
      LET g == Get2Mut(s1, prev, next) IN
      IF g # "Some"
      THEN Res(a1, "panic", None, IF g = "None" THEN "unwrap" ELSE g)
      ELSE
        LET s2 == [s1 EXCEPT !.entries[prev + 1].next = next]
            s3 == [s2 EXCEPT !.entries[next + 1].prev = prev]
        IN
        IF s1.entries[prev + 1].next # key
        THEN Res([self EXCEPT !.slab = s2], "panic", None, "assert")
        ELSE IF s2.entries[next + 1].prev # key
        THEN Res([self EXCEPT !.slab = s3], "panic", None, "assert")
        ELSE Res([self EXCEPT !.slab = s3], "value", value, "")
    ELSE IF prev # None
    THEN \* is tail
      IF ~SlabContains(s1, prev)
      THEN Res(a1, "panic", None, "unwrap")
      ELSE
        LET s2 == [s1 EXCEPT !.entries[prev + 1].next = None]
            a2 == [self EXCEPT !.slab = s2]
            a3 == [a2 EXCEPT !.tail = prev]
        IN
        IF s1.entries[prev + 1].next # key
        THEN Res(a2, "panic", None, "assert")
        ELSE IF self.tail # key
        THEN Res(a3, "panic", None, "assert")
        ELSE Res(a3, "value", value, "")
    ELSE IF next # None
    THEN \* is head
      IF ~SlabContains(s1, next)
      THEN Res(a1, "panic", None, "unwrap")
      ELSE
        LET s2 == [s1 EXCEPT !.entries[next + 1].prev = None]
            a2 == [self EXCEPT !.slab = s2]
            a3 == [a2 EXCEPT !.head = next]
        IN
        IF s1.entries[next + 1].prev # key
        THEN Res(a2, "panic", None, "assert")
        ELSE IF self.head # key
        THEN Res(a3, "panic", None, "assert")
        ELSE Res(a3, "value", value, "")
    ELSE \* is only item
      LET a2 == [a1 EXCEPT !.head = None]
          a3 == [a2 EXCEPT !.tail = None]
      IN
      IF self.head # key
      THEN Res(a2, "panic", None, "assert")
      ELSE IF self.tail # key
      THEN Res(a3, "panic", None, "assert")
      ELSE Res(a3, "value", value, "")

\* remove that hands the absence on instead of panicking.
RemoveWithoutExpect(self, key) == TryRemoveOp(self, key)

\* try_remove(key).expect("invalid key")
RemoveOp(self, key) ==
  LET r == TryRemoveOp(self, key) IN
  IF r.kind = "none"
  THEN Res(r.self, "panic", None, "invalid key")
  ELSE r

\* pop_front without the early return on an absent head.
PopFrontWithoutHeadCheck(self) == RemoveOp(self, self.head)

PopFrontOp(self) ==
  IF self.head = None
  THEN Res(self, "none", None, "")
  ELSE RemoveOp(self, self.head)

PopBackOp(self) ==
  IF self.tail = None
  THEN Res(self, "none", None, "")
  ELSE RemoveOp(self, self.tail)

\* get: the value stored under key, if any.
GetOp(self, key) ==
  IF SlabContains(self.slab, key)
  THEN Res(self, "value", self.slab.entries[key + 1].value, "")
  ELSE Res(self, "none", None, "")

\* What slab.get_unchecked(key) can produce.  On a key that is not in the
\* store it is undefined behaviour: the call may yield any value, the bytes
\* of a vacant entry included, or abort.
GetUnchecked(self, key) ==
  IF SlabContains(self.slab, key)
  THEN {Res(self, "value", self.slab.entries[key + 1].value, "")}
  ELSE {Res(self, "value", v, "") : v \in Values \cup {0}}
         \cup {Res(self, "panic", None, "undefined")}

\* front: the outcomes of reading the record at head.
FrontOp(self) ==
  IF self.head = None
  THEN {Res(self, "none", None, "")}
  ELSE GetUnchecked(self, self.head)

\* back: the outcomes of reading the record at tail.
BackOp(self) ==
  IF self.tail = None
  THEN {Res(self, "none", None, "")}
  ELSE GetUnchecked(self, self.tail)

\* len: slab.len()
LenOp(self) == Res(self, "len", self.slab.len, "")

\* is_empty: slab.is_empty(), 1 for true and 0 for false
IsEmptyOp(self) == Res(self, "bool", IF self.slab.len = 0 THEN 1 ELSE 0, "")

----------------------------------------------------------------------------
(* The state machine: one action per public operation. *)

\* The slab's vector is kept within MaxKeys entries.
CanInsert == slab.next < MaxKeys

Apply(op, value, key, r) ==
  /\ ops < MaxOps
  /\ ops' = ops + 1
  /\ r.kind = "panic" => panics < MaxPanics
  /\ panics' = IF r.kind = "panic" THEN panics + 1 ELSE panics
  /\ slab' = r.self.slab
  /\ head' = r.self.head
  /\ tail' = r.self.tail
  /\ ret' = [op |-> op, value |-> value, key |-> key,
             kind |-> r.kind, out |-> r.out, msg |-> r.msg]

\* A caller that calls any operation in any order.
Step(op, value, key, r) == Apply(op, value, key, r) /\ UNCHANGED scenario

Init ==
  /\ slab = ListNew.slab
  /\ head = ListNew.head
  /\ tail = ListNew.tail
  /\ panics = 0
  /\ ops = 0
  /\ ret = [op |-> "new", value |-> 0, key |-> None,
            kind |-> "new", out |-> None, msg |-> ""]
  /\ mode = "any"
  /\ pushed = <<>>
  /\ popped = <<>>

insert_before ==
  /\ CanInsert
  /\ \E value \in Values, target_key \in Keys :
       Step("insert_before", value, target_key,
             InsertBefore(Self, value, target_key))

insert_after ==
  /\ CanInsert
  /\ \E value \in Values, target_key \in Keys :
       Step("insert_after", value, target_key,
             InsertAfter(Self, value, target_key))

push_front ==
  /\ CanInsert
  /\ \E value \in Values :
       Step("push_front", value, None, PushFrontOp(Self, value))

push_back ==
  /\ CanInsert
  /\ \E value \in Values :
       Step("push_back", value, None, PushBackOp(Self, value))

try_remove ==
  \E key \in Keys : Step("try_remove", 0, key, TryRemoveOp(Self, key))

remove ==
  \E key \in Keys : Step("remove", 0, key, RemoveOp(Self, key))

pop_front == Step("pop_front", 0, None, PopFrontOp(Self))

pop_back == Step("pop_back", 0, None, PopBackOp(Self))

Next ==
  \/ insert_before
  \/ insert_after
  \/ push_front
  \/ push_back
  \/ try_remove
  \/ remove
  \/ pop_front
  \/ pop_back

Spec == Init /\ [][Next]_vars

----------------------------------------------------------------------------
(* The list with its accessors: the caller may also read between updates. *)

get == \E key \in Keys : Step("get", 0, key, GetOp(Self, key))

front == \E r \in FrontOp(Self) : Step("front", 0, None, r)

back == \E r \in BackOp(Self) : Step("back", 0, None, r)

len == Step("len", 0, None, LenOp(Self))

is_empty == Step("is_empty", 0, None, IsEmptyOp(Self))

ReadNext ==
  \/ Next
  \/ get
  \/ front
  \/ back
  \/ len
  \/ is_empty

ReadSpec == Init /\ [][ReadNext]_vars

----------------------------------------------------------------------------
(* The push/pop scenario: a new list, pushes at one end only, then pops   *)
(* from the front until one pop past the last element.                    *)

OrderInit ==
  /\ slab = ListNew.slab
  /\ head = ListNew.head
  /\ tail = ListNew.tail
  /\ panics = 0
  /\ ops = 0
  /\ ret = [op |-> "new", value |-> 0, key |-> None,
            kind |-> "new", out |-> None, msg |-> ""]
  /\ mode \in {"front", "back"}
  /\ pushed = <<>>
  /\ popped = <<>>

order_push_front ==
  /\ mode = "front"
  /\ popped = <<>>
  /\ CanInsert
  /\ \E value \in Values :
       /\ Apply("push_front", value, None, PushFrontOp(Self, value))
       /\ pushed' = Append(pushed, value)
  /\ UNCHANGED <<mode, popped>>

order_push_back ==
  /\ mode = "back"
  /\ popped = <<>>
  /\ CanInsert
  /\ \E value \in Values :
       /\ Apply("push_back", value, None, PushBackOp(Self, value))
       /\ pushed' = Append(pushed, value)
  /\ UNCHANGED <<mode, popped>>

order_pop_front ==
  /\ Len(popped) <= Len(pushed)
  /\ LET r == PopFrontOp(Self) IN
       /\ Apply("pop_front", 0, None, r)
       /\ popped' = Append(popped, [kind |-> r.kind, out |-> r.out])
  /\ UNCHANGED <<mode, pushed>>

OrderNext ==
  \/ order_push_front
  \/ order_push_back
  \/ order_pop_front

OrderSpec == OrderInit /\ [][OrderNext]_vars

----------------------------------------------------------------------------
(* What a caller can observe of the list *)

\* The keys held in the store.
Live ==
  {k \in 0..(Len(slab.entries) - 1) : slab.entries[k + 1].tag = "Occupied"}

\* The record stored under key k.
Item(k) == slab.entries[k + 1]

\* The prev and next of every stored record.
Links == [k \in Live |-> <<Item(k).prev, Item(k).next>>]

\* The keys visited by following next from k; the walk ends at a record whose
\* next is None, at a key that is not in the store, or when fuel runs out
\* (a cycle).
RECURSIVE WalkFrom(_, _)
WalkFrom(k, fuel) ==
  IF k = None \/ fuel = 0 THEN <<>>
  ELSE IF k \notin Live THEN <<k>>
  ELSE <<k>> \o WalkFrom(Item(k).next, fuel - 1)

\* The keys visited from head.
Walk == WalkFrom(head, Len(slab.entries) + 1)

\* The head-to-tail sequence of <<key, value>> pairs.
PairSeq == [i \in 1..Len(Walk) |-> <<Walk[i], Item(Walk[i]).value>>]

Range(w) == {w[i] : i \in 1..Len(w)}

\* seq with pair placed at position i
InsertAt(seq, i, pair) ==
  SubSeq(seq, 1, i - 1) \o <<pair>> \o SubSeq(seq, i, Len(seq))

\* The step just taken is a call of op.
Called(op) == ops' = ops + 1 /\ ret'.op = op

----------------------------------------------------------------------------
(* Claims *)

\* C1: after every operation of a sequence of public operations that all
\* returned, following next from head visits exactly the keys held in the
\* store, each once, and the last key visited is tail.
C1_WalkVisitsExactlyTheStore ==
  panics = 0 =>
    /\ Range(Walk) = Live
    /\ Len(Walk) = Cardinality(Live)
    /\ Walk # <<>> => Walk[Len(Walk)] = tail

\* C2: in every reachable state (those reached without any panic already) the
\* links are reciprocal: a stored record's prev (next), when set, names a
\* stored record whose next (prev) names it back.
C2_LinksAreReciprocal ==
  panics = 0 =>
    \A k \in Live :
      /\ Item(k).prev # None =>
           Item(k).prev \in Live /\ Item(Item(k).prev).next = k
      /\ Item(k).next # None =>
           Item(k).next \in Live /\ Item(Item(k).next).prev = k

\* C3: after every public operation that returns, head is none exactly when
\* tail is none and exactly when the store is empty.
C3_HeadTailNoneIffStoreEmpty ==
  ret.kind # "panic" =>
    /\ (head = None) <=> (tail = None)
    /\ (head = None) <=> (slab.len = 0)

\* C4: in every reachable state (those reached without any panic already)
\* head names a stored record with prev = None, tail names a stored record
\* with next = None, and no other stored record has prev = None or next = None.
C4_OnlyHeadAndTailLackANeighbour ==
  panics = 0 =>
    /\ head # None => (head \in Live /\ Item(head).prev = None)
    /\ tail # None => (tail \in Live /\ Item(tail).next = None)
    /\ \A k \in Live :
         /\ Item(k).prev = None => head = k
         /\ Item(k).next = None => tail = k

\* C5: insert_before / insert_after called with a target key that is not in
\* the store leaves head, tail, len(), the stored keys and every record's
\* prev and next as they were.
C5_FailedInsertChangesNothing ==
  [][ ( /\ Called("insert_before") \/ Called("insert_after")
        /\ ret'.key \notin Live )
      => ( /\ head' = head
           /\ tail' = tail
           /\ slab'.len = slab.len
           /\ Live' = Live
           /\ Links' = Links ) ]_vars

\* C6: insert_before / insert_after called with a target key that is not in
\* the store fails (panics) and returns no key, whatever the state: an empty
\* list, or a target that is the vacant key the slab gives the new record.
C6_InsertWithDeadTargetFails ==
  [][ ( /\ Called("insert_before") \/ Called("insert_after")
        /\ ret'.key \notin Live )
      => ret'.kind = "panic" ]_vars

\* C6 witness: an insert has failed whose target was the vacant key the slab
\* assigned to the new record in that call (the record sits there unlinked).
C6_Witness ==
  /\ ret.op \in {"insert_before", "insert_after"}
  /\ ret.kind = "panic"
  /\ ret.key \in Live
  /\ Item(ret.key).key = None

\* C7: remove(key) with a key that is not in the store panics with "invalid
\* key" and changes nothing; with a stored key it does what try_remove(key)
\* does, and the value it returns is the payload stored under key.
C7_RemoveIsTryRemoveOrInvalidKey ==
  [][ Called("remove") =>
        IF ret'.key \notin Live
        THEN /\ ret'.kind = "panic"
             /\ ret'.msg = "invalid key"
             /\ UNCHANGED <<slab, head, tail>>
        ELSE LET r == TryRemoveOp(Self, ret'.key) IN
             /\ Self' = r.self
             /\ ret'.kind = r.kind
             /\ ret'.kind # "none"
             /\ ret'.kind = "value" => ret'.out = Item(ret'.key).value
             /\ ret'.key \notin Live' ]_vars

\* C7 witness: remove has failed with "invalid key" on a list that holds
\* records.
C7_Witness ==
  /\ ret.op = "remove"
  /\ ret.kind = "panic"
  /\ ret.msg = "invalid key"
  /\ slab.len > 0

\* C8: try_remove(key) with a key that is not in the store, pop_front() with
\* no head and pop_back() with no tail (the list is empty) return None, do
\* not panic and change nothing.
C8_MissesReturnNoneAndChangeNothing ==
  [][ ( \/ Called("try_remove") /\ ret'.key \notin Live
        \/ Called("pop_front") /\ head = None
        \/ Called("pop_back") /\ tail = None )
      => ( /\ ret'.kind = "none"
           /\ UNCHANGED <<slab, head, tail>> ) ]_vars

\* C8 witness: a pop has returned None on a list emptied by earlier removals.
C8_Witness ==
  /\ ret.op \in {"pop_front", "pop_back"}
  /\ ret.kind = "none"
  /\ slab.len = 0
  /\ Len(slab.entries) > 0

\* C9: insert_before(value, target_key) with a stored target, on a list whose
\* operations all returned so far, returns a key
\* that was not stored before and turns the head-to-tail sequence into the
\* previous one with <<key, value>> placed right before the target; the new
\* key is head exactly when the target was head.
C9_InsertBeforePlacesTheRecord ==
  [][ (Called("insert_before") /\ ret'.key \in Live /\ panics = 0) =>
        /\ ret'.kind = "key"
        /\ ret'.out \notin Live
        /\ \E i \in 1..Len(Walk) :
             /\ Walk[i] = ret'.key
             /\ PairSeq' = InsertAt(PairSeq, i, <<ret'.out, ret'.value>>)
        /\ (head' = ret'.out) <=> (head = ret'.key) ]_vars

\* C10: insert_after(value, target_key) with a stored target, on a list whose
\* operations all returned so far, returns a key
\* that was not stored before and turns the head-to-tail sequence into the
\* previous one with <<key, value>> placed right after the target; the new
\* key is tail exactly when the target was tail.
C10_InsertAfterPlacesTheRecord ==
  [][ (Called("insert_after") /\ ret'.key \in Live /\ panics = 0) =>
        /\ ret'.kind = "key"
        /\ ret'.out \notin Live
        /\ \E i \in 1..Len(Walk) :
             /\ Walk[i] = ret'.key
             /\ PairSeq' = InsertAt(PairSeq, i + 1, <<ret'.out, ret'.value>>)
        /\ (tail' = ret'.out) <=> (tail = ret'.key) ]_vars

\* seq without its element at position i
RemoveAt(seq, i) == SubSeq(seq, 1, i - 1) \o SubSeq(seq, i + 1, Len(seq))

\* The step just taken is a removal by op of a key that was in the store.
Removing(op, key) == Called(op) /\ key \in Live

\* C11: try_remove(key) with a stored key, on a list whose operations all
\* returned so far, returns the payload stored under key and turns the
\* head-to-tail sequence into the previous one without that element; key is
\* no longer in the store.
C11_TryRemoveDeletesExactlyTheRecord ==
  [][ (Removing("try_remove", ret'.key) /\ panics = 0) =>
        /\ ret'.kind = "value"
        /\ ret'.out = Item(ret'.key).value
        /\ ret'.key \notin Live'
        /\ \E i \in 1..Len(Walk) :
             /\ Walk[i] = ret'.key
             /\ PairSeq' = RemoveAt(PairSeq, i) ]_vars

\* What an operation that returned kind adds to len().
LenDelta(kind) == IF kind = "key" THEN 1 ELSE IF kind = "value" THEN -1 ELSE 0

\* C13: len() is the number of insertions that returned a key minus the
\* number of removals that returned a value: it is 0 for a new list and every
\* operation changes it by 1 when it returns a key, by -1 when it returns a
\* value and not at all otherwise; is_empty() is len() == 0.
C13_LenCountsReturnedInsertsAndRemovals ==
  [][ ops' = ops + 1 => slab'.len = slab.len + LenDelta(ret'.kind) ]_vars

\* C14: on a list whose operations all returned so far, every removal of a
\* stored key (remove, try_remove, pop_front, pop_back, in any order) returns,
\* and the one that removes the last stored key leaves head = None,
\* tail = None and len() == 0, from where push_front and push_back create a
\* sole element again.
C14_RemovingEverythingEndsEmpty ==
  [][ ( /\ panics = 0
        /\ \/ Removing("try_remove", ret'.key)
           \/ Removing("remove", ret'.key)
           \/ Removing("pop_front", head)
           \/ Removing("pop_back", tail) )
      => ( /\ ret'.kind = "value"
           /\ Live' = {} =>
                /\ head' = None /\ tail' = None /\ slab'.len = 0
                /\ \A v \in Values :
                     /\ PushFrontOp(Self', v).kind = "key"
                     /\ PushBackOp(Self', v).kind = "key" ) ]_vars

\* seq back to front
Reverse(seq) == [i \in 1..Len(seq) |-> seq[Len(seq) + 1 - i]]

\* C12: on a new list, after push_front of v1..vn only, successive pop_front
\* calls return vn, ..., v1 and then None; after push_back of v1..vn only,
\* they return v1, ..., vn and then None.
C12_PopFrontOrderAfterPushes ==
  LET expected == IF mode = "front" THEN Reverse(pushed) ELSE pushed IN
  \A i \in 1..Len(popped) :
    IF i <= Len(pushed)
    THEN popped[i] = [kind |-> "value", out |-> expected[i]]
    ELSE popped[i] = [kind |-> "none", out |-> None]

\* C12 witness: two different values were pushed at the front and pop_front
\* was called until it returned None.
C12_Witness ==
  /\ mode = "front"
  /\ Len(pushed) >= 2
  /\ pushed[1] # pushed[2]
  /\ Len(popped) = Len(pushed) + 1

C16_AccessorsReadTheSequence ==
  [][ panics = 0 =>
      /\ ret'.op \in {"get", "front", "back", "len", "is_empty"} /\ ops' = ops + 1
           => UNCHANGED <<slab, head, tail>>
      /\ Called("get") =>
           IF ret'.key \in Live
           THEN ret'.kind = "value" /\ ret'.out = Item(ret'.key).value
           ELSE ret'.kind = "none"
      /\ Called("front") =>
           IF slab.len = 0 THEN ret'.kind = "none"
           ELSE /\ ret'.kind = "value"
                /\ PairSeq # <<>>
                /\ ret'.out = PairSeq[1][2]
      /\ Called("back") =>
           IF slab.len = 0 THEN ret'.kind = "none"
           ELSE /\ ret'.kind = "value"
                /\ PairSeq # <<>>
                /\ ret'.out = PairSeq[Len(PairSeq)][2] ]_vars

\* The result r does not report the key as invalid.
NotInvalidKey(r) == ~(r.kind = "panic" /\ r.msg = "invalid key")

\* C17: stale keys are not detected.  An insertion that follows the removal
\* of key k is issued k again; from then on get(k) returns the newly inserted
\* value, and remove(k), insert_before(_, k) and insert_after(_, k) resolve k
\* to the new record without reporting an invalid key.
C17_ReissuedKeyResolvesToNewRecord ==
  [][ ( /\ ops' = ops + 1
        /\ ret'.op \in {"insert_before", "insert_after", "push_front", "push_back"}
        /\ ret'.kind = "key"
        /\ ret.op \in {"try_remove", "remove"}
        /\ ret.kind = "value" )
      => ( /\ ret'.out = ret.key
           /\ GetOp(Self', ret.key).kind = "value"
           /\ GetOp(Self', ret.key).out = ret'.value
           /\ NotInvalidKey(RemoveOp(Self', ret.key))
           /\ \A v \in Values :
                /\ NotInvalidKey(InsertBefore(Self', v, ret.key))
                /\ NotInvalidKey(InsertAfter(Self', v, ret.key)) ) ]_vars

\* C17 witness: an insertion has been issued a key below the last slot of the
\* store, i.e. the key of a record removed earlier, and the key now resolves
\* to the newly inserted value.
C17_Witness ==
  /\ ret.op \in {"insert_before", "insert_after", "push_front", "push_back"}
  /\ ret.kind = "key"
  /\ ret.out < Len(slab.entries) - 1
  /\ GetOp(Self, ret.out).out = ret.value

\* The keys visited by following prev from k, as WalkFrom follows next.
RECURSIVE WalkBackFrom(_, _)
WalkBackFrom(k, fuel) ==
  IF k = None \/ fuel = 0 THEN <<>>
  ELSE IF k \notin Live THEN <<k>>
  ELSE <<k>> \o WalkBackFrom(Item(k).prev, fuel - 1)

\* The keys visited from tail.
WalkBack == WalkBackFrom(tail, Len(slab.entries) + 1)

\* C18: on a list whose operations all returned so far, pop_front() with a
\* head removes and returns exactly the element at head and pop_back() with a
\* tail exactly the element at tail, and the order in which pops from the
\* back meet the elements (tail, then prev, ...) is the reverse of the order
\* of pops from the front (head, then next, ...).
C18_PopsTakeTheEndsInReverseOrders ==
  [][ panics = 0 =>
      /\ (Called("pop_front") /\ head # None) =>
           /\ head \in Live
           /\ ret'.kind = "value"
           /\ ret'.out = Item(head).value
           /\ Live' = Live \ {head}
           /\ WalkBack = Reverse(Walk)
      /\ (Called("pop_back") /\ tail # None) =>
           /\ tail \in Live
           /\ ret'.kind = "value"
           /\ ret'.out = Item(tail).value
           /\ Live' = Live \ {tail}
           /\ WalkBack = Reverse(Walk) ]_vars

\* C19: on a list whose operations all returned so far, insert_before with a
\* stored target leaves tail alone and changes head only if the target was
\* head; insert_after leaves head alone and changes tail only if the target
\* was tail; try_remove / remove of a stored key changes head only if the key
\* was head and tail only if the key was tail.
C19_EndsChangeOnlyWhenTouched ==
  [][ panics = 0 =>
      /\ (Called("insert_before") /\ ret'.key \in Live) =>
           /\ tail' = tail
           /\ head' # head => head = ret'.key
      /\ (Called("insert_after") /\ ret'.key \in Live) =>
           /\ head' = head
           /\ tail' # tail => tail = ret'.key
      /\ (Removing("try_remove", ret'.key) \/ Removing("remove", ret'.key)) =>
           /\ head' # head => head = ret'.key
           /\ tail' # tail => tail = ret'.key ]_vars

\* C20: as long as every insert_before, insert_after and remove is given a
\* stored key, no operation panics (no assert_eq!, assert! or unwrap fails),
\* and every stored record's self key is the key it is stored under.
C20_NoCheckFailsOnLiveKeys ==
  [][ ( /\ panics = 0
        /\ ops' = ops + 1
        /\ ret'.op \in {"insert_before", "insert_after", "remove"}
             => ret'.key \in Live )
      => ( /\ ret'.kind # "panic"
           /\ \A k \in Live' : slab'.entries[k + 1].key = k ) ]_vars

====
